---- MODULE Spec2Model ----
(***************************************************************************)
(* A model of moltcook.io's storage layer: the combined-activity           *)
(* aggregator DatabaseStorage.getCombinedActivity, together with the       *)
(* deletes that can run between its awaits, and the secret codec           *)
(* (getEncryptionKey, encrypt, decrypt).                                   *)
(*                                                                         *)
(* Abstractions.  An item's `action` and `details` payloads are copies of  *)
(* record columns that no lookup touches; the rows carry only the columns  *)
(* the aggregation reads (id, botId, userId, createdAt).  A null           *)
(* createdAt is the empty sequence, a timestamp t is <<t>>.  A null id     *)
(* reference is NoId, the falsy value the code itself substitutes.         *)
(***************************************************************************)
EXTENDS Integers, Sequences, FiniteSets, TLC

\* ------------------------------------------------------------------ bounds
\* Rows held by the posts, trades and audit-log tables together.
MaxRec == 2
\* Largest limit a call is made with.
MaxLimit == 2
\* Longest text given to encrypt, in code units.
MaxLen == 2

\* ------------------------------------------------------------------ values
BotIds == {1, 2}
UserIds == {1}
Times == {1, 2}
Calls == {1, 2}
\* `log.botId || 0`: the falsy id standing for a null reference (serial ids start at 1).
NoId == 0
NULL == "null"
UNDEFINED == "undefined"
TypeError == "TypeError"

NoTime == << >>
CreatedAts == {NoTime} \cup {<<t>> : t \in Times}

VARIABLES
  \* the store
  bots, users, botXAccounts, botPosts, trades, auditLogs,
  \* one getCombinedActivity invocation per element of Calls
  pc, limit, recentPosts, recentTrades, recentLogs, botMap, userMap, pfpMap, result,
  \* history: the bots deleted while the call waited for its bot lookup
  deletedDuring,
  \* history: the user rows the store held when the call's user lookup ran
  usersSeen,
  \* the process environment the codec reads, and its last calls:
  \* key (getEncryptionKey), encIn/encOut (encrypt), decIn/decOut (decrypt)
  sessionSecret, nodeEnv, key, encIn, encOut, decIn, decOut,
  \* one upsertBotXAccount invocation per element of Upserts: where it stands, its
  \* argument and the row its read returned
  upc, udata, existing,
  \* whether the bot_x_accounts table rejects a second row of one bot
  botIdUnique

vars == << bots, users, botXAccounts, botPosts, trades, auditLogs,
           pc, limit, recentPosts, recentTrades, recentLogs, botMap, userMap, pfpMap, result,
           deletedDuring, usersSeen, sessionSecret, nodeEnv, key, encIn, encOut, decIn,
           decOut, upc, udata, existing, botIdUnique >>

upserts == << upc, udata, existing, botIdUnique >>
codec == << sessionSecret, nodeEnv, key, encIn, encOut, decIn, decOut >>
aggregator == << bots, users, botXAccounts, botPosts, trades, auditLogs,
                 pc, limit, recentPosts, recentTrades, recentLogs, botMap, userMap, pfpMap,
                 result, deletedDuring, usersSeen >>
store == << bots, users, botXAccounts, botPosts, trades, auditLogs >>
locals == << pc, limit, recentPosts, recentTrades, recentLogs, botMap, userMap, pfpMap, result >>

\* ------------------------------------------------------------------ helpers
Range(s) == {s[i] : i \in DOMAIN s}
EmptyMap == [k \in {} |-> NULL]
Min2(a, b) == IF a <= b THEN a ELSE b

\* `v || d` on strings: undefined, null and "" are falsy.
OrElse(v, d) == IF v \in {UNDEFINED, NULL, ""} THEN d ELSE v

\* ------------------------------------------------------------------ rows
BotName(b) == IF b = 1 THEN "bot1" ELSE "bot2"
Username(u) == IF u = 1 THEN "user1" ELSE "user2"
\* Both bots belong to the one user.
BotRow(b) == [id |-> b, botName |-> BotName(b), userId |-> 1]

\* The columns of a post or trade, and of an audit log, with createdAt drawn from cas.
PostData(cas) == [botId : BotIds, createdAt : cas]
LogData(cas) == [botId : BotIds \cup {NoId}, userId : UserIds \cup {NoId}, createdAt : cas]

\* Which row of a table got which serial id changes nothing the code reads, so of
\* the tables that hold the same rows in another id order one is drawn: the one
\* whose rows are in the order of RowCode.
RowCode(d) ==
  LET t == IF d.createdAt = NoTime THEN 0 ELSE d.createdAt[1]
      u == IF "userId" \in DOMAIN d THEN d.userId ELSE 0
  IN (d.botId * 2 + u) * 3 + t
InIdOrder(f) == \A i, j \in DOMAIN f : i < j => RowCode(f[i]) <= RowCode(f[j])

\* Serial primary keys: the row at position i has id i.
WithIds(f) == [i \in DOMAIN f |-> [id |-> i] @@ f[i]]

\* ------------------------------------------------------------------ queries
\* `a.createdAt ? new Date(a.createdAt).getTime() : 0`
GetTime(createdAt) == IF createdAt = NoTime THEN 0 ELSE createdAt[1]

\* The database's ORDER BY created_at DESC: where NULLs go depends on the engine
\* behind ./db (first on PostgreSQL, last on SQLite and MySQL).
DbRank(createdAt, nullsFirst) ==
  IF createdAt = NoTime THEN (IF nullsFirst THEN 1000 ELSE -1) ELSE createdAt[1]

\* db.select().from(T).orderBy(desc(T.createdAt)).limit(n): every answer the
\* database may give; rows with equal createdAt come in any order.
RecentRows(table, n, nullsFirst) ==
  LET k == Min2(n, Len(table))
      R(i) == DbRank(table[i].createdAt, nullsFirst)
      picks == {p \in [1..k -> DOMAIN table] :
                  /\ \A i, j \in 1..k : i < j => (p[i] # p[j] /\ R(p[i]) >= R(p[j]))
                  /\ \A x \in DOMAIN table : (\A i \in 1..k : p[i] # x) =>
                        \A i \in 1..k : R(p[i]) >= R(x)}
  IN {[i \in 1..k |-> table[p[i]]] : p \in picks}

\* Lines 340-344: the distinct bot ids the three batches reference.
AllBotIds(ps, ts, ls) ==
  {ps[i].botId : i \in DOMAIN ps} \cup {ts[i].botId : i \in DOMAIN ts}
    \cup {ls[i].botId : i \in {j \in DOMAIN ls : ls[j].botId # NoId}}

\* Lines 348-355: the bot query and the table built from it.
BuildBotMap(botRows, ids) ==
  LET found == {b \in botRows : b.id \in ids}
  IN [k \in {b.id : b \in found} |->
        LET b == CHOOSE x \in found : x.id = k IN [botName |-> b.botName, userId |-> b.userId]]

\* Line 357
OwnerIds(bm) == {bm[k].userId : k \in DOMAIN bm}

\* Mutant of BuildUserMap: the user query without its inArray filter.
BuildUserMapAll(userRows, ids) == [u \in userRows |-> Username(u)]

\* Lines 358-362: the user query and its table.
BuildUserMap(userRows, ids) == [u \in (userRows \cap ids) |-> Username(u)]

\* Lines 364-368: the avatar query; a later row of one bot overwrites an earlier one.
BuildPfpMap(xRows, ids) ==
  LET hit == {i \in DOMAIN xRows : xRows[i].botId \in ids}
  IN [k \in {xRows[i].botId : i \in hit} |->
        LET last == CHOOSE i \in hit :
                      xRows[i].botId = k /\ \A j \in hit : xRows[j].botId = k => j <= i
        IN xRows[last].xProfileImageUrl]

\* ------------------------------------------------------------------ normalisation
\* Mutant of ItemId: the id is the record's id alone, `${n}`.
ItemIdBare(prefix, n) == <<"", "-", n>>

\* `${prefix}-${n}`: a prefix holds no digit, so the string is one-to-one in (prefix, n).
ItemId(prefix, n) == <<prefix, "-", n>>

\* Mutant of OptBotName: `bot.botName`, which raises on a missed lookup.
StrictBotName(bm, id) == IF id \in DOMAIN bm THEN bm[id].botName ELSE TypeError

\* `bot?.botName`: undefined when the bot lookup missed.
OptBotName(bm, id) == IF id \in DOMAIN bm THEN bm[id].botName ELSE UNDEFINED

\* `bot ? (userMap[bot.userId] || "Unknown") : otherwise`
OwnerName(bm, um, id, otherwise) ==
  IF id \in DOMAIN bm
    THEN OrElse(IF bm[id].userId \in DOMAIN um THEN um[bm[id].userId] ELSE UNDEFINED, "Unknown")
    ELSE otherwise

\* `pfpMap[id] || null`
Pfp(pm, id) == OrElse(IF id \in DOMAIN pm THEN pm[id] ELSE UNDEFINED, NULL)

\* Lines 372-385
PostItem(post, bm, um, pm) ==
  [id |-> ItemId("tweet", post.id), type |-> "tweet", botId |-> post.botId,
   botName |-> OrElse(OptBotName(bm, post.botId), "Unknown"),
   ownerUsername |-> OwnerName(bm, um, post.botId, "Unknown"),
   botProfileImageUrl |-> Pfp(pm, post.botId),
   createdAt |-> post.createdAt]

\* Lines 387-400
TradeItem(trade, bm, um, pm) ==
  [id |-> ItemId("trade", trade.id), type |-> "trade", botId |-> trade.botId,
   botName |-> OrElse(OptBotName(bm, trade.botId), "Unknown"),
   ownerUsername |-> OwnerName(bm, um, trade.botId, "Unknown"),
   botProfileImageUrl |-> Pfp(pm, trade.botId),
   createdAt |-> trade.createdAt]

\* Lines 402-415.  `log.botId ? botMap[log.botId] : null` misses for NoId, which
\* is in no table's domain.
LogItem(log, bm, um, pm) ==
  [id |-> ItemId("log", log.id), type |-> "system", botId |-> log.botId,
   botName |-> OrElse(OptBotName(bm, log.botId), "System"),
   ownerUsername |->
     OwnerName(bm, um, log.botId,
               IF log.userId # NoId
                 THEN OrElse(IF log.userId \in DOMAIN um THEN um[log.userId] ELSE UNDEFINED,
                             "Unknown")
                 ELSE "System"),
   botProfileImageUrl |-> IF log.botId # NoId THEN Pfp(pm, log.botId) ELSE NULL,
   createdAt |-> log.createdAt]

\* Lines 370-415: posts first, then trades, then logs.
BuildItems(ps, ts, ls, bm, um, pm) ==
  [i \in DOMAIN ps |-> PostItem(ps[i], bm, um, pm)]
    \o [i \in DOMAIN ts |-> TradeItem(ts[i], bm, um, pm)]
    \o [i \in DOMAIN ls |-> LogItem(ls[i], bm, um, pm)]

\* Mutant of Cmp: `ta - tb`, oldest first.
CmpAsc(a, b) == GetTime(a.createdAt) - GetTime(b.createdAt)

\* Lines 417-421: the comparator; negative puts a first.
Cmp(a, b) == GetTime(b.createdAt) - GetTime(a.createdAt)

\* Array.prototype.sort is stable: x goes behind every element that need not follow it.
RECURSIVE InsertSorted(_, _)
InsertSorted(s, x) ==
  IF s = << >> THEN <<x>>
  ELSE IF Cmp(s[1], x) <= 0 THEN <<s[1]>> \o InsertSorted(Tail(s), x)
  ELSE <<x>> \o s

RECURSIVE SortItems(_)
SortItems(items) ==
  IF items = << >> THEN << >>
  ELSE InsertSorted(SortItems(SubSeq(items, 1, Len(items) - 1)), items[Len(items)])

\* Line 423: items.slice(0, limit), limit >= 0.
Slice(items, n) == SubSeq(items, 1, Min2(n, Len(items)))

\* A property read on undefined raises.
Throws(items) == \E i \in DOMAIN items : items[i].botName = TypeError

\* ------------------------------------------------------------------ getCombinedActivity
\* Mutant of Slot: the three tables are module-level objects every call fills and reads.
SharedSlot(c) == 1

\* botMap, userMap and pfpMap are consts of the invocation: call c owns slot c.
Slot(c) == c

InFlight == {"bots", "users", "avatars"}

\* Lines 333-346: the call, its three source queries and the short-circuit.
Call(c, L) ==
  /\ pc[c] = "idle"
  /\ \E nullsFirst \in BOOLEAN :
     \E ps \in RecentRows(botPosts, L, nullsFirst),
        ts \in RecentRows(trades, L, nullsFirst),
        ls \in RecentRows(auditLogs, L, nullsFirst) :
       /\ limit' = [limit EXCEPT ![c] = L]
       /\ recentPosts' = [recentPosts EXCEPT ![c] = ps]
       /\ recentTrades' = [recentTrades EXCEPT ![c] = ts]
       /\ recentLogs' = [recentLogs EXCEPT ![c] = ls]
       /\ pc' = [pc EXCEPT ![c] = IF AllBotIds(ps, ts, ls) = {} THEN "done" ELSE "bots"]
  /\ UNCHANGED << store, botMap, userMap, pfpMap, result, deletedDuring, usersSeen, codec,
                  upserts >>

\* Lines 348-357: the bot query answers; with no owner to look up the user query is skipped.
LookupBots(c) ==
  /\ pc[c] = "bots"
  /\ LET bm == BuildBotMap(bots, AllBotIds(recentPosts[c], recentTrades[c], recentLogs[c]))
     IN /\ botMap' = [botMap EXCEPT ![Slot(c)] = bm]
        /\ IF OwnerIds(bm) = {}
             THEN /\ userMap' = [userMap EXCEPT ![Slot(c)] = EmptyMap]
                  /\ pc' = [pc EXCEPT ![c] = "avatars"]
             ELSE /\ UNCHANGED userMap
                  /\ pc' = [pc EXCEPT ![c] = "users"]
  /\ UNCHANGED << store, limit, recentPosts, recentTrades, recentLogs, pfpMap, result,
                  deletedDuring, usersSeen, codec, upserts >>

\* Lines 358-362: the user query answers.
LookupUsers(c) ==
  /\ pc[c] = "users"
  /\ userMap' = [userMap EXCEPT ![Slot(c)] = BuildUserMap(users, OwnerIds(botMap[Slot(c)]))]
  /\ usersSeen' = [usersSeen EXCEPT ![c] = users]
  /\ pc' = [pc EXCEPT ![c] = "avatars"]
  /\ UNCHANGED << store, limit, recentPosts, recentTrades, recentLogs, botMap, pfpMap, result,
                  deletedDuring, codec, upserts >>

\* Lines 364-423: the avatar query answers; normalise, sort, truncate, return.
LookupAvatars(c) ==
  /\ pc[c] = "avatars"
  /\ LET pm == BuildPfpMap(botXAccounts,
                           AllBotIds(recentPosts[c], recentTrades[c], recentLogs[c]))
         items == BuildItems(recentPosts[c], recentTrades[c], recentLogs[c],
                             botMap[Slot(c)], userMap[Slot(c)], pm)
     IN /\ pfpMap' = [pfpMap EXCEPT ![Slot(c)] = pm]
        /\ IF Throws(items)
             THEN /\ pc' = [pc EXCEPT ![c] = "threw"]
                  /\ UNCHANGED result
             ELSE /\ pc' = [pc EXCEPT ![c] = "done"]
                  /\ result' = [result EXCEPT ![c] = Slice(SortItems(items), limit[c])]
  /\ UNCHANGED << store, limit, recentPosts, recentTrades, recentLogs, botMap, userMap,
                  deletedDuring, usersSeen, codec, upserts >>

\* ------------------------------------------------------------------ store operations
\* deleteBot: removes the bot's row and nothing else.
DeleteBot(b) ==
  /\ \E r \in bots : r.id = b
  /\ bots' = {r \in bots : r.id # b}
  /\ deletedDuring' =
       [c \in Calls |->
          IF pc[c] = "bots" /\ b \in AllBotIds(recentPosts[c], recentTrades[c], recentLogs[c])
            THEN deletedDuring[c] \cup {b} ELSE deletedDuring[c]]
  /\ UNCHANGED << users, botXAccounts, botPosts, trades, auditLogs, locals, usersSeen, codec,
                  upserts >>

\* deleteUser
DeleteUser(u) ==
  /\ u \in users
  /\ users' = users \ {u}
  /\ UNCHANGED << bots, botXAccounts, botPosts, trades, auditLogs, locals,
                  deletedDuring, usersSeen, codec, upserts >>

\* ------------------------------------------------------------------ X accounts
Upserts == {1, 2}
\* The columns upsertBotXAccount writes, one standing for all six it sets.
XData == [botId : BotIds, xProfileImageUrl : {"pfpA", "pfpB", NULL}]

\* getBotXAccount: the first row the select returns for the bot, in a one-element
\* sequence, or the empty sequence for undefined; the select has no ORDER BY.
GetBotXAccount(xRows, b) ==
  IF \E i \in DOMAIN xRows : xRows[i].botId = b
    THEN {<<xRows[i]>> : i \in {j \in DOMAIN xRows : xRows[j].botId = b}}
    ELSE {<< >>}

\* Line 220: the call is made and its read answers; the call then waits for its write.
UpsertRead(u, data) ==
  /\ upc[u] = "idle"
  /\ udata' = [udata EXCEPT ![u] = data]
  /\ \E found \in GetBotXAccount(botXAccounts, data.botId) :
       existing' = [existing EXCEPT ![u] = found]
  /\ upc' = [upc EXCEPT ![u] = "read"]
  /\ UNCHANGED << aggregator, codec, botIdUnique >>

\* Lines 221-231: a row was read, so every row of the bot is set to the data.
UpsertUpdate(u) ==
  /\ upc[u] = "read" /\ existing[u] # << >>
  /\ botXAccounts' = [i \in DOMAIN botXAccounts |->
                        IF botXAccounts[i].botId = udata[u].botId
                          THEN udata[u] ELSE botXAccounts[i]]
  /\ upc' = [upc EXCEPT ![u] = "done"]
  /\ UNCHANGED << bots, users, botPosts, trades, auditLogs, locals, deletedDuring,
                  usersSeen, codec, udata, existing, botIdUnique >>

\* Lines 232-233: no row was read, so one is inserted; a table that keeps botId
\* unique rejects it when the bot has a row by now, and the call throws.
UpsertInsert(u) ==
  /\ upc[u] = "read" /\ existing[u] = << >>
  /\ IF botIdUnique /\ \E i \in DOMAIN botXAccounts : botXAccounts[i].botId = udata[u].botId
       THEN /\ upc' = [upc EXCEPT ![u] = "threw"]
            /\ UNCHANGED botXAccounts
       ELSE /\ upc' = [upc EXCEPT ![u] = "done"]
            /\ botXAccounts' = Append(botXAccounts, udata[u])
  /\ UNCHANGED << bots, users, botPosts, trades, auditLogs, locals, deletedDuring,
                  usersSeen, codec, udata, existing, botIdUnique >>

\* ------------------------------------------------------------------ secret codec
\* Strings are sequences of UTF-16 code units, buffers sequences of bytes.
Colon == <<58>>
\* The code units texts are drawn from: "a", ":", U+00E9, and the two halves of the
\* surrogate pair of U+1F600.
Units == {97, 58, 233, 55357, 56832}
IsHigh(u) == u >= 55296 /\ u <= 56319
IsLow(u) == u >= 56320 /\ u <= 57343

\* The UTF-8 bytes of one code point.
Utf8Bytes(cp) ==
  IF cp < 128 THEN <<cp>>
  ELSE IF cp < 2048 THEN <<192 + (cp \div 64), 128 + (cp % 64)>>
  ELSE IF cp < 65536 THEN <<224 + (cp \div 4096), 128 + ((cp \div 64) % 64), 128 + (cp % 64)>>
  ELSE <<240 + (cp \div 262144), 128 + ((cp \div 4096) % 64), 128 + ((cp \div 64) % 64),
         128 + (cp % 64)>>

\* cipher.update(text, "utf8", ...): a surrogate pair is one code point, a surrogate
\* without its partner is written as U+FFFD.
RECURSIVE Utf8Encode(_)
Utf8Encode(text) ==
  IF text = << >> THEN << >>
  ELSE IF IsHigh(text[1]) /\ Len(text) >= 2 /\ IsLow(text[2])
    THEN Utf8Bytes(65536 + (text[1] - 55296) * 1024 + (text[2] - 56320))
           \o Utf8Encode(SubSeq(text, 3, Len(text)))
  ELSE IF IsHigh(text[1]) \/ IsLow(text[1])
    THEN Utf8Bytes(65533) \o Utf8Encode(Tail(text))
  ELSE Utf8Bytes(text[1]) \o Utf8Encode(Tail(text))

\* The code units of one decoded code point.
UnitsOf(cp) ==
  IF cp < 65536 THEN <<cp>>
  ELSE <<55296 + ((cp - 65536) \div 1024), 56320 + ((cp - 65536) % 1024)>>
IsCont(bytes, i) == i <= Len(bytes) /\ bytes[i] >= 128 /\ bytes[i] < 192

\* decipher.update(..., "utf8"): a byte that starts no complete sequence decodes to U+FFFD.
RECURSIVE Utf8Decode(_)
Utf8Decode(bytes) ==
  IF bytes = << >> THEN << >>
  ELSE LET b == bytes[1] IN
    IF b < 128 THEN <<b>> \o Utf8Decode(Tail(bytes))
    ELSE IF b >= 192 /\ b < 224 /\ IsCont(bytes, 2)
      THEN UnitsOf((b - 192) * 64 + (bytes[2] - 128)) \o Utf8Decode(SubSeq(bytes, 3, Len(bytes)))
    ELSE IF b >= 224 /\ b < 240 /\ IsCont(bytes, 2) /\ IsCont(bytes, 3)
      THEN UnitsOf((b - 224) * 4096 + (bytes[2] - 128) * 64 + (bytes[3] - 128))
             \o Utf8Decode(SubSeq(bytes, 4, Len(bytes)))
    ELSE IF b >= 240 /\ b < 248 /\ IsCont(bytes, 2) /\ IsCont(bytes, 3) /\ IsCont(bytes, 4)
      THEN UnitsOf((b - 240) * 262144 + (bytes[2] - 128) * 4096 + (bytes[3] - 128) * 64
                     + (bytes[4] - 128))
             \o Utf8Decode(SubSeq(bytes, 5, Len(bytes)))
    ELSE <<65533>> \o Utf8Decode(Tail(bytes))

\* Mutant of HexByte: `b.toString(16)`, no leading zero.
HexByteNoPad(b) ==
  LET d(n) == IF n < 10 THEN 48 + n ELSE 87 + n
  IN IF b < 16 THEN <<d(b)>> ELSE <<d(b \div 16), d(b % 16)>>

\* toString("hex") of one byte: two lower-case digits.
HexByte(b) ==
  LET d(n) == IF n < 10 THEN 48 + n ELSE 87 + n
  IN <<d(b \div 16), d(b % 16)>>

RECURSIVE ToHex(_)
ToHex(bytes) == IF bytes = << >> THEN << >> ELSE HexByte(bytes[1]) \o ToHex(Tail(bytes))

\* The value of a hex digit, -1 for any other character.
HexVal(ch) ==
  IF ch >= 48 /\ ch <= 57 THEN ch - 48
  ELSE IF ch >= 97 /\ ch <= 102 THEN ch - 87
  ELSE IF ch >= 65 /\ ch <= 70 THEN ch - 55
  ELSE -1

\* Buffer.from(s, "hex"): whole pairs of hex digits, up to the first that is not one.
RECURSIVE FromHex(_)
FromHex(str) ==
  IF Len(str) < 2 \/ HexVal(str[1]) < 0 \/ HexVal(str[2]) < 0 THEN << >>
  ELSE <<HexVal(str[1]) * 16 + HexVal(str[2])>> \o FromHex(SubSeq(str, 3, Len(str)))

\* encryptedText.split(":"): the empty string is one empty segment.
RECURSIVE Split(_)
Split(str) ==
  IF \A i \in DOMAIN str : str[i] # 58 THEN <<str>>
  ELSE LET i == CHOOSE k \in DOMAIN str : str[k] = 58 /\ \A j \in 1..(k - 1) : str[j] # 58
       IN <<SubSeq(str, 1, i - 1)>> \o Split(SubSeq(str, i + 1, Len(str)))

\* Line 13: the string the development fallback key is the digest of.
DevOnlyKey == "moltcook-dev-only-key"
\* createHash("sha256").update(s).digest(), as a collision-free hash.
Sha256(str) == <<"sha256", str>>

\* Lines 7-17.  `!key` holds for an unset and for an empty SESSION_SECRET.
GetEncryptionKey(secret, env) ==
  IF secret \in {UNDEFINED, ""}
    THEN IF env = "production"
           THEN [kind |-> "ConfigurationError", val |-> << >>]
           ELSE [kind |-> "key", val |-> Sha256(DevOnlyKey)]
    ELSE [kind |-> "key", val |-> Sha256(secret)]

\* randomBytes(16) and the length of a GCM tag.
IvLen == 16
TagLen == 16
\* The initialisation vectors randomBytes is seen to return.
Ivs == {[i \in 1..IvLen |-> 0], [i \in 1..IvLen |-> (i * 37) % 256]}

RECURSIVE Xor(_, _)
Xor(a, b) ==
  IF a = 0 THEN b ELSE IF b = 0 THEN a
  ELSE ((a + b) % 2) + 2 * Xor(a \div 2, b \div 2)

RECURSIVE Sum(_)
Sum(bytes) == IF bytes = << >> THEN 0 ELSE bytes[1] + Sum(Tail(bytes))

\* aes-256-gcm as a stream cipher with a tag: byte i of the text is xor-ed with a
\* key stream byte set by the key, the iv and i; the tag is set by the key, the iv
\* and the cipher text.
KeySeed(k) == IF k = Sha256(DevOnlyKey) THEN 23 ELSE 151
KeyStream(k, iv, i) == (KeySeed(k) + 7 * iv[1] + 13 * i) % 256
Crypt(k, iv, bytes) == [i \in DOMAIN bytes |-> Xor(bytes[i], KeyStream(k, iv, i))]
AuthTag(k, iv, ct) == [j \in 1..TagLen |-> (KeySeed(k) + Sum(iv) + 3 * Sum(ct) + Len(ct) + j) % 256]

\* Lines 19-27
EncryptResult(text, iv, secret, env) ==
  LET k == GetEncryptionKey(secret, env) IN
  IF k.kind # "key" THEN [kind |-> k.kind, val |-> << >>]
  ELSE LET encrypted == Crypt(k.val, iv, Utf8Encode(text))
           authTag == AuthTag(k.val, iv, encrypted)
       IN [kind |-> "ok", val |-> ToHex(iv) \o Colon \o ToHex(authTag) \o Colon \o ToHex(encrypted)]

\* Mutant of SegmentsOk: `parts.length < 3` is what is refused.
SegmentsAtLeast3(parts) == Len(parts) >= 3

\* Line 32: `parts.length !== 3` raises.
SegmentsOk(parts) == Len(parts) = 3

\* Lines 29-41.  Any refusal of the cipher (an empty iv, a tag that does not
\* verify) is the one AuthenticationError.
DecryptResult(encryptedText, secret, env) ==
  LET k == GetEncryptionKey(secret, env)
      parts == Split(encryptedText)
  IN
  IF k.kind # "key" THEN [kind |-> k.kind, val |-> << >>]
  ELSE IF ~SegmentsOk(parts) THEN [kind |-> "FormatError", val |-> << >>]
  ELSE LET iv == FromHex(parts[1])
           authTag == FromHex(parts[2])
           encrypted == FromHex(parts[3])
       IN IF iv = << >> \/ authTag # AuthTag(k.val, iv, encrypted)
            THEN [kind |-> "AuthenticationError", val |-> << >>]
            ELSE [kind |-> "ok", val |-> Utf8Decode(Crypt(k.val, iv, encrypted))]

None == [kind |-> "none", val |-> << >>]

\* encrypt(text), once in a behaviour.
Encrypt(text, iv) ==
  /\ encOut = None
  /\ encIn' = text
  /\ key' = GetEncryptionKey(sessionSecret, nodeEnv)
  /\ encOut' = EncryptResult(text, iv, sessionSecret, nodeEnv)
  /\ UNCHANGED << sessionSecret, nodeEnv, decIn, decOut, aggregator, upserts >>

\* decrypt(encryptedText), once in a behaviour.
Decrypt(encryptedText) ==
  /\ decOut = None
  /\ decIn' = encryptedText
  /\ key' = GetEncryptionKey(sessionSecret, nodeEnv)
  /\ decOut' = DecryptResult(encryptedText, sessionSecret, nodeEnv)
  /\ UNCHANGED << sessionSecret, nodeEnv, encIn, encOut, aggregator, upserts >>

\* The texts given to encrypt.
Texts == UNION {[1..n -> Units] : n \in 0..MaxLen}
\* Short strings of colons and zeros: one to MaxLen + 3 segments.
Scraps == UNION {[1..n -> {58, 48}] : n \in 0..(MaxLen + 2)}
\* A blob with its last segment cut off, with a segment added, with its cipher
\* text's first digit changed.
Mangled(blob) ==
  LET parts == Split(blob) IN
  { parts[1] \o Colon \o parts[2],
    blob \o Colon \o <<48, 48>>,
    parts[1] \o Colon \o parts[2] \o Colon \o <<102>> \o parts[3] }
\* What decrypt is given: the blob encrypt returned, that blob mangled, or a scrap.
DecryptInputs ==
  Scraps \cup (IF encOut.kind = "ok" THEN {encOut.val} \cup Mangled(encOut.val) ELSE {})

\* ------------------------------------------------------------------ specifications
\* A store whose references all resolve; the three record tables hold any rows
\* with createdAt drawn from cas.
InitStore(cas) ==
  /\ bots = {BotRow(b) : b \in BotIds}
  /\ users = UserIds
  /\ botXAccounts = << [botId |-> 1, xProfileImageUrl |-> "pfp1"],
                       [botId |-> 2, xProfileImageUrl |-> NULL] >>
  /\ \E np, nt, nl \in 0..MaxRec :
       /\ np + nt + nl <= MaxRec
       /\ \E p \in [1..np -> PostData(cas)], t \in [1..nt -> PostData(cas)],
          l \in [1..nl -> LogData(cas)] :
            /\ InIdOrder(p) /\ InIdOrder(t) /\ InIdOrder(l)
            /\ botPosts = WithIds(p)
            /\ trades = WithIds(t)
            /\ auditLogs = WithIds(l)

InitCalls ==
  /\ pc = [c \in Calls |-> "idle"]
  /\ limit = [c \in Calls |-> 0]
  /\ recentPosts = [c \in Calls |-> << >>]
  /\ recentTrades = [c \in Calls |-> << >>]
  /\ recentLogs = [c \in Calls |-> << >>]
  /\ botMap = [c \in Calls |-> EmptyMap]
  /\ userMap = [c \in Calls |-> EmptyMap]
  /\ pfpMap = [c \in Calls |-> EmptyMap]
  /\ result = [c \in Calls |-> << >>]
  /\ deletedDuring = [c \in Calls |-> {}]
  /\ usersSeen = [c \in Calls |-> {}]

\* The codec at rest.
InitCodecCalls ==
  /\ key = None /\ encIn = << >> /\ encOut = None /\ decIn = << >> /\ decOut = None

\* A table with one row for each bot of held, in id order.
RECURSIVE WithPfps(_)
WithPfps(held) ==
  IF held = {} THEN << >>
  ELSE LET b == CHOOSE x \in held : \A y \in held : y <= x
       IN Append(WithPfps(held \ {b}), [botId |-> b, xProfileImageUrl |-> "pfp0"])

\* No upsertBotXAccount call is made.
InitUpserts ==
  /\ upc = [u \in Upserts |-> "idle"]
  /\ udata = [u \in Upserts |-> [botId |-> 1, xProfileImageUrl |-> NULL]]
  /\ existing = [u \in Upserts |-> << >>]

\* The aggregator's behaviours: the codec is configured and never called.
Init ==
  /\ InitStore(CreatedAts) /\ InitCalls /\ InitUpserts /\ botIdUnique = FALSE
  /\ sessionSecret = "s3cret" /\ nodeEnv = "production" /\ InitCodecCalls

\* One invocation, with bots and users deleted at any moment.
Next ==
  \/ \E L \in 0..MaxLimit : Call(1, L)
  \/ LookupBots(1)
  \/ LookupUsers(1)
  \/ LookupAvatars(1)
  \/ \E b \in BotIds : DeleteBot(b)
  \/ \E u \in UserIds : DeleteUser(u)

Spec == Init /\ [][Next]_vars

\* Two invocations over a store nothing writes to, each row of which carries the
\* timestamp its insert defaulted; the second call is made while the first is
\* suspended at one of its awaits.
InitConc ==
  /\ InitStore(CreatedAts \ {NoTime}) /\ InitCalls /\ InitUpserts /\ botIdUnique = FALSE
  /\ sessionSecret = "s3cret" /\ nodeEnv = "production" /\ InitCodecCalls

NextConc ==
  \/ \E L \in 0..MaxLimit : Call(1, L)
  \/ \E L \in 0..MaxLimit : pc[1] \in InFlight /\ Call(2, L)
  \/ \E c \in Calls : LookupBots(c)
  \/ \E c \in Calls : LookupUsers(c)
  \/ \E c \in Calls : LookupAvatars(c)

SpecConc == InitConc /\ [][NextConc]_vars

\* The codec's behaviours: any environment, an empty store, no aggregation.
InitCodec ==
  /\ sessionSecret \in {UNDEFINED, "", "s3cret"}
  /\ nodeEnv \in {UNDEFINED, "production", "development", "test"}
  /\ InitCodecCalls
  /\ bots = {} /\ users = {} /\ botXAccounts = << >>
  /\ botPosts = << >> /\ trades = << >> /\ auditLogs = << >>
  /\ InitCalls /\ InitUpserts /\ botIdUnique = FALSE

NextCodec ==
  \/ \E text \in Texts, iv \in Ivs : Encrypt(text, iv)
  \/ \E encryptedText \in DecryptInputs : Decrypt(encryptedText)

SpecCodec == InitCodec /\ [][NextCodec]_vars

\* The X accounts' behaviours: upsertBotXAccount calls interleaved at their await,
\* over a table holding at most one row of each bot, with or without a unique
\* botId; no aggregation, the codec at rest.
InitUpsert ==
  /\ bots = {BotRow(b) : b \in BotIds} /\ users = UserIds
  /\ \E held \in SUBSET BotIds :
       botXAccounts = WithPfps(held)
  /\ botPosts = << >> /\ trades = << >> /\ auditLogs = << >>
  /\ InitCalls /\ InitUpserts /\ botIdUnique \in BOOLEAN
  /\ sessionSecret = "s3cret" /\ nodeEnv = "production" /\ InitCodecCalls

NextUpsert ==
  \/ \E u \in Upserts, data \in XData : UpsertRead(u, data)
  \/ \E u \in Upserts : UpsertUpdate(u)
  \/ \E u \in Upserts : UpsertInsert(u)

SpecUpsert == InitUpsert /\ [][NextUpsert]_vars

\* The aggregator over two owners: bot 1 belongs to user 1 and bot 2 to user 2, a
\* log's acting user is either of them or none, every record carries the same
\* timestamp; one invocation, with bots and users deleted at any moment.
OwnerUsers == {1, 2}
InitOwners ==
  /\ bots = {BotRow(1), [BotRow(2) EXCEPT !.userId = 2]}
  /\ users = OwnerUsers
  /\ botXAccounts = << [botId |-> 1, xProfileImageUrl |-> "pfp1"],
                       [botId |-> 2, xProfileImageUrl |-> NULL] >>
  /\ \E np, nt, nl \in 0..MaxRec :
       /\ np + nt + nl <= MaxRec
       /\ \E p \in [1..np -> PostData({<<1>>})], t \in [1..nt -> PostData({<<1>>})],
          l \in [1..nl -> [botId : BotIds \cup {NoId}, userId : OwnerUsers \cup {NoId},
                          createdAt : {<<1>>}]] :
            /\ InIdOrder(p) /\ InIdOrder(t) /\ InIdOrder(l)
            /\ botPosts = WithIds(p)
            /\ trades = WithIds(t)
            /\ auditLogs = WithIds(l)
  /\ InitCalls /\ InitUpserts /\ botIdUnique = FALSE
  /\ sessionSecret = "s3cret" /\ nodeEnv = "production" /\ InitCodecCalls

NextOwners ==
  \/ \E L \in 0..MaxLimit : Call(1, L)
  \/ LookupBots(1)
  \/ LookupUsers(1)
  \/ LookupAvatars(1)
  \/ \E b \in BotIds : DeleteBot(b)
  \/ \E u \in OwnerUsers : DeleteUser(u)

SpecOwners == InitOwners /\ [][NextOwners]_vars

\* ------------------------------------------------------------------ claims: aggregator
Done(c) == pc[c] = "done"
Fetched(c) == recentPosts[c] \o recentTrades[c] \o recentLogs[c]
HasNoTime(x) == x.createdAt = NoTime
\* The timestamp the claims order by: a missing one counts as 0.
TimeOf(x) == IF HasNoTime(x) THEN 0 ELSE x.createdAt[1]

\* C1: a finished getCombinedActivity(L) returns at most L items, in non-increasing
\* order of creation timestamp with a missing timestamp counted as 0, so that no
\* item without a timestamp precedes one with a timestamp.
C1_AtMostLimitSortedDesc ==
  \A c \in Calls : Done(c) =>
    /\ Len(result[c]) <= limit[c]
    /\ \A i, j \in DOMAIN result[c] : i < j =>
         /\ TimeOf(result[c][i]) >= TimeOf(result[c][j])
         /\ ~(HasNoTime(result[c][i]) /\ ~HasNoTime(result[c][j]))

\* C1 witness: limit 1 over two fetched records of two sources, one without a
\* timestamp: the call returns the one that has a timestamp and drops the other.
C1_Witness ==
  /\ Done(1) /\ limit[1] = 1 /\ Len(Fetched(1)) = 2
  /\ \E i \in 1..2 : HasNoTime(Fetched(1)[i])
  /\ Len(result[1]) = 1 /\ ~HasNoTime(result[1][1])

\* The batch an item of a given type tag is built from.
SourceRows(c, type) ==
  IF type = "tweet" THEN recentPosts[c]
  ELSE IF type = "trade" THEN recentTrades[c] ELSE recentLogs[c]
\* Item x is built from row r.
BuiltFrom(x, r) == x.botId = r.botId /\ x.createdAt = r.createdAt
UniqueIds(items) == \A i, j \in DOMAIN items : items[i].id = items[j].id => i = j

\* C2 as claimed: every returned item's id is its own type tag, a hyphen and the id
\* of its source record, and no two items of a result share an id.
C2_IdIsTypeTagAndSourceId ==
  \A c \in Calls : Done(c) =>
    /\ UniqueIds(result[c])
    /\ \A i \in DOMAIN result[c] :
         LET x == result[c][i] IN
         \E k \in DOMAIN SourceRows(c, x.type) :
           LET r == SourceRows(c, x.type)[k] IN
           BuiltFrom(x, r) /\ x.id = <<x.type, "-", r.id>>

\* The prefix of an item id: the type tag, except that a system item's is "log".
IdPrefix(type) == IF type = "system" THEN "log" ELSE type

\* C2 as amended: every returned item's id is a prefix, a hyphen and the id of its
\* source record, where the prefix is tweet for a post, trade for a trade and log
\* for an audit log (whose type tag is system); no two items of a result share an id.
C2_IdIsPrefixAndSourceId ==
  \A c \in Calls : Done(c) =>
    /\ UniqueIds(result[c])
    /\ \A i \in DOMAIN result[c] :
         LET x == result[c][i] IN
         /\ x.type \in {"tweet", "trade", "system"}
         /\ \E k \in DOMAIN SourceRows(c, x.type) :
              LET r == SourceRows(c, x.type)[k] IN
              BuiltFrom(x, r) /\ x.id = <<IdPrefix(x.type), "-", r.id>>

\* C2 witness: a result holding a log item and an item of another source whose
\* source records have the same id.
C2_Witness ==
  /\ Done(1) /\ Len(result[1]) = 2
  /\ \E i, j \in 1..2 :
       /\ result[1][i].type = "system" /\ result[1][j].type # "system"
       /\ result[1][i].id[3] = result[1][j].id[3]

\* A fetched record that no truncation can drop: fewer than limit other fetched
\* records are at least as recent.
WithinLimit(c, k) ==
  Cardinality({j \in DOMAIN Fetched(c) \ {k} : TimeOf(Fetched(c)[j]) >= TimeOf(Fetched(c)[k])})
    < limit[c]

\* C3 as claimed: every fetched audit log with a null botId that is within the limit
\* is emitted as an item with botName "System", whatever else was fetched.
C3_SystemLogsEmitted ==
  \A c \in Calls : Done(c) =>
    \A k \in DOMAIN recentLogs[c] :
      LET l == recentLogs[c][k]
          pos == Len(recentPosts[c]) + Len(recentTrades[c]) + k
      IN (l.botId = NoId /\ WithinLimit(c, pos)) =>
           \E i \in DOMAIN result[c] :
             /\ result[c][i].id = <<"log", "-", l.id>>
             /\ result[c][i].botName = "System"

\* C4: the call never raises, and a post or trade whose botId matched no bot when
\* the bot lookup ran is emitted (when within the limit) and carries botName
\* "Unknown" and ownerUsername "Unknown".
C4_DanglingBotIsUnknown ==
  \A c \in Calls :
    /\ pc[c] # "threw"
    /\ Done(c) =>
         /\ \A i \in DOMAIN result[c] :
              LET x == result[c][i] IN
              (x.type \in {"tweet", "trade"} /\ x.botId \notin DOMAIN botMap[c]) =>
                 (x.botName = "Unknown" /\ x.ownerUsername = "Unknown")
         /\ \A k \in 1..(Len(recentPosts[c]) + Len(recentTrades[c])) :
              (Fetched(c)[k].botId \notin DOMAIN botMap[c] /\ WithinLimit(c, k)) =>
                 \E i \in DOMAIN result[c] :
                   /\ BuiltFrom(result[c][i], Fetched(c)[k])
                   /\ result[c][i].type \in {"tweet", "trade"}
                   /\ result[c][i].botName = "Unknown"

\* C4 witness: a finished call returns a trade whose bot was deleted between the
\* trade fetch and the bot lookup, as "Unknown"/"Unknown".
C4_Witness ==
  /\ Done(1)
  /\ \E i \in DOMAIN result[1] :
       /\ result[1][i].type = "trade"
       /\ result[1][i].botId \in deletedDuring[1]
       /\ result[1][i].botName = "Unknown" /\ result[1][i].ownerUsername = "Unknown"

\* Every record of the three tables.
AllRows == botPosts \o trades \o auditLogs
\* How many of a sequence of records have timestamp (missing = 0) t.
CountAt(rows, t) == Cardinality({k \in DOMAIN rows : TimeOf(rows[k]) = t})
\* How many of the n most recent of rows have timestamp t.
TopCountAt(rows, n, t) ==
  LET newer == Cardinality({k \in DOMAIN rows : TimeOf(rows[k]) > t})
      room == IF n > newer THEN n - newer ELSE 0
  IN Min2(CountAt(rows, t), room)

\* C5 as claimed: the records behind the items of a finished getCombinedActivity(L)
\* are the L records with the greatest creation timestamps among all posts, trades
\* and audit logs (all of them when fewer exist): at every timestamp the result
\* holds as many items as the true top L holds records.
C5_TrueTopL ==
  \A c \in Calls : Done(c) =>
    \A t \in {0} \cup Times : CountAt(result[c], t) = TopCountAt(AllRows, limit[c], t)

\* C9 as claimed: in an item built from an audit log, botName is "System" exactly
\* when the log has no owning bot, and a log whose botId resolves to no bot gets
\* botName "Unknown".
C9_SystemIffNoOwningBot ==
  \A c \in Calls : Done(c) =>
    \A i \in DOMAIN result[c] :
      LET x == result[c][i] IN
      x.type = "system" =>
        /\ (x.botName = "System") <=> (x.botId = NoId)
        /\ (x.botId # NoId /\ x.botId \notin DOMAIN botMap[c]) => x.botName = "Unknown"

\* What the call returns for its three batches when nothing else runs: the
\* lookups and the normalisation done at once against the store.
Alone(ps, ts, ls, L) ==
  LET ids == AllBotIds(ps, ts, ls)
      bm == BuildBotMap(bots, ids)
      um == BuildUserMap(users, OwnerIds(bm))
      pm == BuildPfpMap(botXAccounts, ids)
  IN IF ids = {} THEN << >> ELSE Slice(SortItems(BuildItems(ps, ts, ls, bm, um, pm)), L)

\* C10: over a store nothing writes to, interleaved calls do not interfere: no call
\* raises, a call past its bot lookup holds the bot table of its own batches, and a
\* finished call has returned what it returns for its batches when run alone.
C10_CallsDoNotInterfere ==
  \A c \in Calls :
    /\ pc[c] # "threw"
    /\ pc[c] \in {"users", "avatars"} =>
         botMap[c] = BuildBotMap(bots, AllBotIds(recentPosts[c], recentTrades[c], recentLogs[c]))
    /\ Done(c) =>
         /\ \E nf \in BOOLEAN :
              /\ recentPosts[c] \in RecentRows(botPosts, limit[c], nf)
              /\ recentTrades[c] \in RecentRows(trades, limit[c], nf)
              /\ recentLogs[c] \in RecentRows(auditLogs, limit[c], nf)
         /\ result[c] = Alone(recentPosts[c], recentTrades[c], recentLogs[c], limit[c])

\* C10 witness: two calls that overlapped have both finished, with different
\* limits and different, non-empty results.
C10_Witness ==
  /\ Done(1) /\ Done(2)
  /\ limit[1] # limit[2]
  /\ result[1] # << >> /\ result[2] # << >> /\ result[1] # result[2]

\* The owners of the bots the call's bot lookup found.
FoundOwners(c) == {botMap[c][b].userId : b \in DOMAIN botMap[c]}
\* Item x is built from audit log r, whose bot the lookup did not resolve and
\* which names an acting user.
ActedUnresolved(c, x, r) ==
  /\ x.type = "system" /\ x.id = <<"log", "-", r.id>>
  /\ r.botId \notin DOMAIN botMap[c]
  /\ r.userId # NoId

\* C12 as claimed: in an item built from a log with no resolved bot and acting user
\* u, ownerUsername is u's username if and only if u owns at least one bot the bot
\* lookup found, and is "Unknown" otherwise.
C12_ActingUserNamedIffOwnsFoundBot ==
  \A c \in Calls : Done(c) =>
    \A i \in DOMAIN result[c], k \in DOMAIN recentLogs[c] :
      LET x == result[c][i]
          r == recentLogs[c][k]
      IN ActedUnresolved(c, x, r) =>
           x.ownerUsername = IF r.userId \in FoundOwners(c)
                               THEN Username(r.userId) ELSE "Unknown"

\* C12 as amended: ownerUsername is u's username if and only if u owns at least one
\* bot the bot lookup found and u's row was in the user store when the user lookup
\* ran; it is "Unknown" otherwise, even when u is in the user store throughout.
C12_ActingUserNamedIffOwnerLookedUp ==
  \A c \in Calls : Done(c) =>
    \A i \in DOMAIN result[c], k \in DOMAIN recentLogs[c] :
      LET x == result[c][i]
          r == recentLogs[c][k]
      IN ActedUnresolved(c, x, r) =>
           x.ownerUsername = IF r.userId \in FoundOwners(c) /\ r.userId \in usersSeen[c]
                               THEN Username(r.userId) ELSE "Unknown"

\* C12 witness: a finished call found a bot, and returns a log without a bot whose
\* acting user is in the user store, owns a bot the lookup never asked for and
\* none it found, with ownerUsername "Unknown".
C12_Witness ==
  /\ Done(1) /\ botMap[1] # EmptyMap
  /\ \E i \in DOMAIN result[1], k \in DOMAIN recentLogs[1] :
       LET x == result[1][i]
           r == recentLogs[1][k]
       IN /\ ActedUnresolved(1, x, r) /\ r.botId = NoId
          /\ r.userId \in users /\ r.userId \notin FoundOwners(1)
          /\ \E b \in bots : b.userId = r.userId
          /\ x.ownerUsername = "Unknown"

\* ------------------------------------------------------------------ claims: codec
Ok(text) == [kind |-> "ok", val |-> text]
SecretAbsent == sessionSecret \in {UNDEFINED, ""}

\* C6 as claimed: getEncryptionKey returns the development fallback key only when
\* the deployment mode is local development, and raises when the secret is absent
\* in production.
C6_FallbackOnlyInDevelopment ==
  key # None =>
    /\ (key.kind = "key" /\ key.val = Sha256(DevOnlyKey)) => nodeEnv = "development"
    /\ (SecretAbsent /\ nodeEnv = "production") => key.kind = "ConfigurationError"

\* decrypt was given the blob encrypt returned, and has answered.
RoundTripDone == encOut.kind = "ok" /\ decIn = encOut.val /\ decOut # None

\* C7 as claimed: under one configured secret decrypt(encrypt(s)) = s for every
\* string s, and a blob encrypt returns has exactly 3 colon-separated segments.
C7_RoundTripEveryString ==
  ~SecretAbsent =>
    /\ encOut.kind = "ok" => Len(Split(encOut.val)) = 3
    /\ RoundTripDone => decOut = Ok(encIn)

\* No surrogate code unit of the text is without its partner.
WellFormed(text) ==
  \A i \in DOMAIN text :
    /\ IsHigh(text[i]) => (i < Len(text) /\ IsLow(text[i + 1]))
    /\ IsLow(text[i]) => (i > 1 /\ IsHigh(text[i - 1]))

\* C7 as amended: under one key (a configured secret's, or the fallback)
\* decrypt(encrypt(s)) = s for every string s that holds no unpaired surrogate code
\* unit, the empty string and strings with colons included; a blob encrypt returns
\* has exactly 3 colon-separated segments.
C7_RoundTripWellFormed ==
  /\ encOut.kind = "ok" => Len(Split(encOut.val)) = 3
  /\ (RoundTripDone /\ WellFormed(encIn)) => decOut = Ok(encIn)

\* C7 witness: a text of a colon and a non-ASCII character came back from decrypt.
C7_Witness ==
  /\ ~SecretAbsent /\ RoundTripDone /\ decOut = Ok(encIn)
  /\ \E i, j \in DOMAIN encIn : encIn[i] = 58 /\ encIn[j] > 127

\* C8 as claimed: decrypt fails with a format error, and returns no plaintext, for
\* every input that does not split on colons into exactly 3 segments.
C8_FormatErrorUnlessThreeSegments ==
  (decOut # None /\ Len(Split(decIn)) # 3) =>
     (decOut.kind = "FormatError" /\ decOut.val = << >>)

\* C8 as amended: for every input that does not split on colons into exactly 3
\* segments decrypt returns no plaintext; it fails with a format error, before any
\* step of the cipher, whenever the key derivation it starts with succeeds, and with
\* that derivation's configuration error otherwise.
C8_FormatErrorAfterKeyDerivation ==
  (decOut # None /\ Len(Split(decIn)) # 3) =>
     /\ decOut.val = << >>
     /\ decOut.kind =
          IF SecretAbsent /\ nodeEnv = "production" THEN "ConfigurationError" ELSE "FormatError"

\* C8 witness: a blob of encrypt with a fourth segment added was refused for its format.
C8_Witness ==
  /\ encOut.kind = "ok" /\ decIn = encOut.val \o Colon \o <<48, 48>>
  /\ Len(Split(decIn)) = 4 /\ decOut.kind = "FormatError"


\* ------------------------------------------------------------------ claims: X accounts
\* The rows the table holds for bot b.
RowsOf(b) == {i \in DOMAIN botXAccounts : botXAccounts[i].botId = b}
Settled == \A u \in Upserts : upc[u] \in {"idle", "done", "threw"}
CalledFor(b) == {u \in Upserts : upc[u] # "idle" /\ udata[u].botId = b}

\* C11 as claimed: once the interleaved upsertBotXAccount calls for a bot have all
\* returned, the table holds at most one row for that bot, and that row carries
\* the data of one of the calls.
C11_OneRowPerBot ==
  Settled =>
    \A b \in BotIds : CalledFor(b) # {} =>
      /\ Cardinality(RowsOf(b)) <= 1
      /\ \A i \in RowsOf(b) : \E u \in CalledFor(b) : botXAccounts[i] = udata[u]

====
